---- MODULE Spec2Model ----
(***************************************************************************)
(* Model of jaykumarpandit/checkmate:                                      *)
(*   - the Python worker invocation of the two worker-backed routes        *)
(*     (python extraction route and xml-to-pdf route): spawn, stdin write, *)
(*     stdout/stderr 'data', 'close', 'error', the 30 s timer, the         *)
(*     response built from the promise's value;                            *)
(*   - the verbatim path (extract with original, reconstruct from the      *)
(*     original base64);                                                   *)
(*   - the markup serializer createPdfXml / escapeXml and                  *)
(*     stringifyPdfStructure;                                              *)
(*   - the layout synthesis of the pdf-lib extraction route (pages, text   *)
(*     blocks and image blocks built from the page sizes and the text).    *)
(* Strings are sequences: a message is a sequence of pieces, a text is a   *)
(* sequence of one-character strings.                                      *)
(***************************************************************************)
EXTENDS Integers, Sequences, FiniteSets, TLC

\* ------------------------------------------------------------------ bounds
\* longest stdout accumulator, in chunks
MaxOut == 3
\* longest stderr accumulator, in chunks
MaxErr == 2

VARIABLES
    route,        \* which worker-backed route handles the request
    pc,           \* position of POST: "start", "awaiting" (the promise), "responded";
                  \* "crashed" once the server process has ended on an uncaught exception
    proc,         \* the worker process: "unspawned", "running", "exited", "failed" (spawn failure)
    sigterm,      \* a SIGTERM was delivered to the live process by pythonProcess.kill()
    stdout,       \* let stdout = ''
    stderr,       \* let stderr = ''
    exitCode,     \* the code 'close' reports ("none" until the process has exited)
    closeEmitted, \* the 'close' handler has run
    errorEmitted, \* the 'error' handler has run
    timer,        \* the setTimeout: "unset", "pending", "fired"
    result,       \* the promise: [settled, val]
    resolveCalls, \* number of resolve(...) calls made so far
    killCalls,    \* number of pythonProcess.kill() calls made so far
    response,     \* the Response returned by POST
    firstEvent,   \* history: the first of 'close', 'error', timer to run ("none" before)
    firstValue,   \* history: the value that first handler passed to resolve
    deliveries,   \* history: how many times the promise's value was set
    arrivals,     \* history: the 'data' events in arrival order, as <<channel, chunk>>
                  \* (Untracked in the specifications that do not read it)
    doc,          \* serializer: the arguments [metadata, pages] of createPdfXml
    xmlOut,       \* serializer: the markup returned by each createPdfXml call so far
    jsonOut,      \* serializer: the text returned by each stringifyPdfStructure call so far
    calls,        \* serializer: the fileName argument of each createPdfXml call so far
    upload,       \* verbatim path: the file part of the extraction request
    rtStructure,  \* verbatim path: the PdfStructure the extraction route returned (<< >> before)
    extracted,    \* verbatim path: the extraction route's response status (0 before)
    download,     \* verbatim path: the reconstruct route's response
    pdfDoc,       \* layout synthesis: what pdf-lib and pdf-parse find in the uploaded file
    layout        \* layout synthesis: the route's response and the model it serializes

workerVars == <<route, pc, proc, sigterm, stdout, stderr, exitCode, closeEmitted,
                errorEmitted, timer, result, resolveCalls, killCalls, response,
                firstEvent, firstValue, deliveries, arrivals>>

xmlVars == <<doc, xmlOut, jsonOut, calls>>

rtVars == <<upload, rtStructure, extracted, download>>

layoutVars == <<pdfDoc, layout>>

vars == <<workerVars, xmlVars, rtVars, layoutVars>>

\* ------------------------------------------------------------ JS values
\* undefined / absent / '' : every falsy string of the model
Undefined == << >>

\* the object a handler resolves the promise with, or JSON.parse returns
Obj(err, method, xml, pdf) ==
    [error |-> err, extraction_method |-> method, xml_content |-> xml, pdf_data |-> pdf]

NoValue == Obj(Undefined, Undefined, Undefined, Undefined)

Routes == {"extract", "convert"}

\* ------------------------------------------------------- worker output
LBrace == "{"
RBrace == "}"
Comma == ","
ErrMember == "\"error\":\"m\""
XmlMember == "\"xml_content\":\"x\""
PdfMember == "\"pdf_data\":\"eA==\""

\* what the worker of a route can write on stdout, one lexeme per chunk
StdoutChunks(r) ==
    {LBrace, RBrace, ErrMember, IF r = "extract" THEN XmlMember ELSE PdfMember}

StderrChunks == {"boom"}

ExitCodes == {"0", "2", "null"}

\* the code 'close' reports after a failed spawn (-errno of ENOENT)
SpawnFailCode == "-2"

IsMember(t) == t \in {ErrMember, XmlMember, PdfMember}

\* JSON.parse accepts s: an object of members separated by commas
JsonValid(s) ==
    /\ Len(s) >= 2
    /\ s[1] = LBrace
    /\ s[Len(s)] = RBrace
    /\ \/ Len(s) = 2
       \/ /\ Len(s) % 2 = 1
          /\ \A i \in 2..(Len(s) - 1) :
                IF i % 2 = 0 THEN IsMember(s[i]) ELSE s[i] = Comma

\* the value of the last member with a key, or undefined
MemberValue(s, member, value) ==
    IF \E i \in 1..Len(s) : s[i] = member THEN value ELSE Undefined

\* JSON.parse(stdout) of a valid text
JsonParse(s) ==
    Obj(MemberValue(s, ErrMember, <<"m">>),
        Undefined,
        MemberValue(s, XmlMember, <<"x">>),
        MemberValue(s, PdfMember, <<"e", "A", "=", "=">>))

\* ------------------------------------------------- the promise's outcomes
\* extraction_method of the failure objects: only the extraction route sets it
Method(r, m) == IF r = "extract" THEN <<m>> ELSE Undefined

\* resolve({ error: "Failed to parse Python output", ... })
ParseFailure(r) ==
    Obj(<<"Failed to parse Python output">>, Method(r, "failed"), Undefined, Undefined)

\* resolve({ error: `Python process failed with code ${code}: ${stderr}`, ... })
ProcessFailed(r, code, err) ==
    Obj(<<"Python process failed with code ", code, ": ">> \o err,
        Method(r, "failed"), Undefined, Undefined)

\* err.message of the 'error' event of a failed spawn
SpawnErrMessage == "spawn python ENOENT"

\* resolve({ error: `Python process error: ${err.message}`, ... })
ProcessError(r, message) ==
    Obj(<<"Python process error: ", message>>, Method(r, "failed"), Undefined, Undefined)

TimeoutMessage(r) ==
    IF r = "extract" THEN "PDF processing timeout" ELSE "PDF conversion timeout"

\* resolve({ error: "PDF processing timeout", extraction_method: "timeout" })
TimeoutOutcome(r) ==
    Obj(<<TimeoutMessage(r)>>, Method(r, "timeout"), Undefined, Undefined)

\* mutant of CloseOutcome: the failure message leaves the stderr accumulator out
CloseOutcome_noStderr(r, code, out, err) ==
    IF code = "0"
    THEN IF JsonValid(out) THEN JsonParse(out) ELSE ParseFailure(r)
    ELSE ProcessFailed(r, code, << >>)

\* the value the 'close' handler resolves with
CloseOutcome(r, code, out, err) ==
    IF code = "0"
    THEN IF JsonValid(out) THEN JsonParse(out) ELSE ParseFailure(r)
    ELSE ProcessFailed(r, code, err)

Pending == [settled |-> FALSE, val |-> NoValue]

\* mutant of resolve: a later call replaces the value
resolve_overwrite(v) == [settled |-> TRUE, val |-> v]

\* resolve(v) of a promise: the first call settles it, later calls are ignored
resolve(v) == IF result.settled THEN result ELSE [settled |-> TRUE, val |-> v]

\* the bookkeeping of one terminal handler (ev) calling resolve(v)
Settle(ev, v) ==
    /\ result' = resolve(v)
    /\ resolveCalls' = resolveCalls + 1
    /\ deliveries' = IF result' = result THEN deliveries ELSE deliveries + 1
    /\ firstEvent' = IF firstEvent = "none" THEN ev ELSE firstEvent
    /\ firstValue' = IF firstEvent = "none" THEN v ELSE firstValue

\* the continuation of `await new Promise` runs as a microtask, before any
\* other event handler
MicrotaskPending == pc = "awaiting" /\ result.settled

\* --------------------------------------------------------------- base64
\* the base64 alphabet
B64Chars ==
   <<"A", "B", "C", "D", "E", "F", "G", "H", "I", "J", "K", "L", "M", "N", "O", "P",
      "Q", "R", "S", "T", "U", "V", "W", "X", "Y", "Z", "a", "b", "c", "d", "e", "f",
      "g", "h", "i", "j", "k", "l", "m", "n", "o", "p", "q", "r", "s", "t", "u", "v",
      "w", "x", "y", "z", "0", "1", "2", "3", "4", "5", "6", "7", "8", "9", "+", "/">>

B64Pad == "="

B64Char(sextet) == B64Chars[sextet + 1]

\* Buffer.toString("base64"): 3 bytes give 4 characters, a last group of 1 or
\* 2 bytes is padded with =
RECURSIVE Base64Encode(_)
Base64Encode(bytes) ==
    IF Len(bytes) = 0 THEN << >>
    ELSE IF Len(bytes) = 1
    THEN << B64Char(bytes[1] \div 4), B64Char((bytes[1] % 4) * 16), B64Pad, B64Pad >>
    ELSE IF Len(bytes) = 2
    THEN << B64Char(bytes[1] \div 4),
            B64Char((bytes[1] % 4) * 16 + bytes[2] \div 16),
            B64Char((bytes[2] % 16) * 4), B64Pad >>
    ELSE << B64Char(bytes[1] \div 4),
            B64Char((bytes[1] % 4) * 16 + bytes[2] \div 16),
            B64Char((bytes[2] % 16) * 4 + bytes[3] \div 64),
            B64Char(bytes[3] % 64) >>
         \o Base64Encode(SubSeq(bytes, 4, Len(bytes)))

B64Index(c) == CHOOSE i \in 0..63 : B64Chars[i + 1] = c

\* the sextets of the characters before the first padding character
RECURSIVE Sextets(_)
Sextets(text) ==
    IF text = << >> \/ Head(text) = B64Pad THEN << >>
    ELSE <<B64Index(Head(text))>> \o Sextets(Tail(text))

\* 4 sextets give 3 bytes, a last group of 3 gives 2 bytes, of 2 gives 1 byte
RECURSIVE BytesOfSextets(_)
BytesOfSextets(v) ==
    IF Len(v) < 2 THEN << >>
    ELSE IF Len(v) = 2 THEN << v[1] * 4 + v[2] \div 16 >>
    ELSE IF Len(v) = 3
    THEN << v[1] * 4 + v[2] \div 16, (v[2] % 16) * 16 + v[3] \div 4 >>
    ELSE << v[1] * 4 + v[2] \div 16, (v[2] % 16) * 16 + v[3] \div 4, (v[3] % 4) * 64 + v[4] >>
         \o BytesOfSextets(SubSeq(v, 5, Len(v)))

\* Buffer.from(text, "base64")
Base64Decode(text) == BytesOfSextets(Sextets(text))

\* ------------------------------------------------------------ responses
Resp(status, err, method, xml, body, success) ==
    [status |-> status, error |-> err, extractionMethod |-> method,
     xmlContent |-> xml, body |-> body, success |-> success]

NoResponse == Resp(0, Undefined, Undefined, Undefined, Undefined, FALSE)

MissingInput(r) ==
    Resp(400, <<IF r = "extract" THEN "Missing file" ELSE "Missing XML content">>,
         Undefined, Undefined, Undefined, FALSE)

\* err.message of what req.formData() or req.json() and the destructuring of
\* its value throw on a body that cannot be read
BodyError(r) ==
    IF r = "extract" THEN "Content-Type was not one of multipart/form-data"
    ELSE "Unexpected token in JSON"

\* the response of the catch of POST
CaughtError(r, message) ==
    Resp(500, <<message>>, IF r = "extract" THEN <<"api-error">> ELSE Undefined,
         Undefined, Undefined, FALSE)

\* what POST returns once the promise has the value v: the error response, the
\* extraction route's success response, or the bytes of the decoded pdf_data
ResponseOf(r, v) ==
    IF v.error # Undefined
    THEN Resp(500, v.error, v.extraction_method, Undefined, Undefined, FALSE)
    ELSE IF r = "extract"
         THEN Resp(200, Undefined, v.extraction_method, v.xml_content, Undefined, TRUE)
         ELSE IF v.pdf_data = Undefined
              THEN Resp(500, <<"No PDF data generated">>, Undefined, Undefined,
                        Undefined, FALSE)
              ELSE Resp(200, Undefined, Undefined, Undefined,
                        Base64Decode(v.pdf_data), FALSE)

\* the arrival history is not recorded
Untracked == << <<"untracked", "">> >>

\* the arrival history after a 'data' event on a channel
Arrived(channel, chunk) ==
    IF arrivals = Untracked THEN arrivals ELSE Append(arrivals, <<channel, chunk>>)

\* -------------------------------------------------------------- actions
InitWorker ==
    /\ route \in Routes
    /\ pc = "start"
    /\ proc = "unspawned"
    /\ sigterm = FALSE
    /\ stdout = << >>
    /\ stderr = << >>
    /\ exitCode = "none"
    /\ closeEmitted = FALSE
    /\ errorEmitted = FALSE
    /\ timer = "unset"
    /\ result = Pending
    /\ resolveCalls = 0
    /\ killCalls = 0
    /\ response = NoResponse
    /\ firstEvent = "none"
    /\ firstValue = NoValue
    /\ deliveries = 0

\* POST with the required input missing: 400, nothing is spawned
PostMissingInput ==
    /\ pc = "start"
    /\ pc' = "responded"
    /\ response' = MissingInput(route)
    /\ UNCHANGED <<route, proc, sigterm, stdout, stderr, exitCode, closeEmitted,
                   errorEmitted, timer, result, resolveCalls, killCalls,
                   firstEvent, firstValue, deliveries, arrivals,
                   xmlVars, rtVars, layoutVars>>

\* POST with a body that cannot be read: the catch answers 500, nothing is
\* spawned
PostThrow ==
    /\ pc = "start"
    /\ pc' = "responded"
    /\ response' = CaughtError(route, BodyError(route))
    /\ UNCHANGED <<route, proc, sigterm, stdout, stderr, exitCode, closeEmitted,
                   errorEmitted, timer, result, resolveCalls, killCalls,
                   firstEvent, firstValue, deliveries, arrivals,
                   xmlVars, rtVars, layoutVars>>

\* POST up to the await: spawn, stdin.write, stdin.end, the handlers, setTimeout
PostSpawn(spawnOk) ==
    /\ pc = "start"
    /\ pc' = "awaiting"
    /\ proc' = IF spawnOk THEN "running" ELSE "failed"
    /\ exitCode' = IF spawnOk THEN "none" ELSE SpawnFailCode
    /\ timer' = "pending"
    /\ UNCHANGED <<route, sigterm, stdout, stderr, closeEmitted, errorEmitted,
                   result, resolveCalls, killCalls, response,
                   firstEvent, firstValue, deliveries, arrivals,
                   xmlVars, rtVars, layoutVars>>

\* pythonProcess.stdin emits 'error' (EPIPE: the worker closed stdin or exited
\* without reading all of the request).  No listener is registered, so the
\* event is thrown as an uncaught exception and the server process ends with
\* the request unanswered; where the host installs an uncaughtException
\* handler the event changes nothing (a stuttering step).
OnStdinError ==
    /\ pc \in {"awaiting", "responded"}
    /\ proc \in {"running", "exited"}
    /\ ~closeEmitted
    /\ ~MicrotaskPending
    /\ pc' = "crashed"
    /\ UNCHANGED <<route, proc, sigterm, stdout, stderr, exitCode, closeEmitted,
                   errorEmitted, timer, result, resolveCalls, killCalls, response,
                   firstEvent, firstValue, deliveries, arrivals,
                   xmlVars, rtVars, layoutVars>>

\* pythonProcess.stdout.on('data')
OnStdoutData(chunk) ==
    /\ pc # "crashed"
    /\ proc \in {"running", "exited"}
    /\ ~closeEmitted
    /\ ~MicrotaskPending
    /\ Len(stdout) < MaxOut
    /\ stdout' = Append(stdout, chunk)
    /\ arrivals' = Arrived("stdout", chunk)
    /\ UNCHANGED <<route, pc, proc, sigterm, stderr, exitCode, closeEmitted,
                   errorEmitted, timer, result, resolveCalls, killCalls, response,
                   firstEvent, firstValue, deliveries,
                   xmlVars, rtVars, layoutVars>>

\* mutant of OnStderrData: the handler appends to the stdout accumulator
OnStderrData_sharedAccumulator(chunk) ==
    /\ pc # "crashed"
    /\ proc \in {"running", "exited"}
    /\ ~closeEmitted
    /\ ~MicrotaskPending
    /\ Len(stdout) < MaxOut
    /\ stdout' = Append(stdout, chunk)
    /\ arrivals' = Arrived("stderr", chunk)
    /\ UNCHANGED <<route, pc, proc, sigterm, stderr, exitCode, closeEmitted,
                   errorEmitted, timer, result, resolveCalls, killCalls, response,
                   firstEvent, firstValue, deliveries,
                   xmlVars, rtVars, layoutVars>>

\* pythonProcess.stderr.on('data')
OnStderrData(chunk) ==
    /\ pc # "crashed"
    /\ proc \in {"running", "exited"}
    /\ ~closeEmitted
    /\ ~MicrotaskPending
    /\ Len(stderr) < MaxErr
    /\ stderr' = Append(stderr, chunk)
    /\ arrivals' = Arrived("stderr", chunk)
    /\ UNCHANGED <<route, pc, proc, sigterm, stdout, exitCode, closeEmitted,
                   errorEmitted, timer, result, resolveCalls, killCalls, response,
                   firstEvent, firstValue, deliveries,
                   xmlVars, rtVars, layoutVars>>

\* the worker process ends (by itself with a code, or by a signal: code null)
WorkerExit(code) ==
    /\ pc # "crashed"
    /\ proc = "running"
    /\ proc' = "exited"
    /\ exitCode' = code
    /\ UNCHANGED <<route, pc, sigterm, stdout, stderr, closeEmitted, errorEmitted,
                   timer, result, resolveCalls, killCalls, response,
                   firstEvent, firstValue, deliveries, arrivals,
                   xmlVars, rtVars, layoutVars>>

\* pythonProcess.on('close'): after the exit, or after the 'error' of a failed spawn
OnClose ==
    /\ pc # "crashed"
    /\ \/ proc = "exited"
       \/ proc = "failed" /\ errorEmitted
    /\ ~closeEmitted
    /\ ~MicrotaskPending
    /\ closeEmitted' = TRUE
    /\ Settle("close", CloseOutcome(route, exitCode, stdout, stderr))
    /\ UNCHANGED <<route, pc, proc, sigterm, stdout, stderr, exitCode, errorEmitted,
                   timer, killCalls, response, arrivals,
                   xmlVars, rtVars, layoutVars>>

\* mutant of OnError: the handler logs the error and does not resolve
OnError_logOnly ==
    /\ pc # "crashed"
    /\ proc = "failed"
    /\ ~errorEmitted
    /\ ~MicrotaskPending
    /\ errorEmitted' = TRUE
    /\ UNCHANGED <<route, pc, proc, sigterm, stdout, stderr, exitCode, closeEmitted,
                   timer, killCalls, response, result, resolveCalls, deliveries,
                   firstEvent, firstValue, arrivals,
                   xmlVars, rtVars, layoutVars>>

\* pythonProcess.on('error'): the spawn failed
OnError ==
    /\ pc # "crashed"
    /\ proc = "failed"
    /\ ~errorEmitted
    /\ ~MicrotaskPending
    /\ errorEmitted' = TRUE
    /\ Settle("error", ProcessError(route, SpawnErrMessage))
    /\ UNCHANGED <<route, pc, proc, sigterm, stdout, stderr, exitCode, closeEmitted,
                   timer, killCalls, response, arrivals,
                   xmlVars, rtVars, layoutVars>>

\* pythonProcess.kill(): SIGTERM reaches the process only while it is alive
kill == IF proc = "running" THEN TRUE ELSE sigterm

\* 'error' of a failed spawn is emitted on the next tick, before any timer.
OnTimeout ==
    /\ pc # "crashed"
    /\ timer = "pending"
    /\ proc = "failed" => errorEmitted
    /\ ~MicrotaskPending
    /\ timer' = "fired"
    /\ killCalls' = killCalls + 1
    /\ sigterm' = kill
    /\ Settle("timer", TimeoutOutcome(route))
    /\ UNCHANGED <<route, pc, proc, stdout, stderr, exitCode, closeEmitted,
                   errorEmitted, response, arrivals,
                   xmlVars, rtVars, layoutVars>>

\* POST after the await: the response built from the promise's value
Respond ==
    /\ pc = "awaiting"
    /\ result.settled
    /\ pc' = "responded"
    /\ response' = ResponseOf(route, result.val)
    /\ UNCHANGED <<route, proc, sigterm, stdout, stderr, exitCode, closeEmitted,
                   errorEmitted, timer, result, resolveCalls, killCalls,
                   firstEvent, firstValue, deliveries, arrivals,
                   xmlVars, rtVars, layoutVars>>

NextWorker ==
    \/ PostMissingInput
    \/ PostThrow
    \/ \E ok \in BOOLEAN : PostSpawn(ok)
    \/ \E c \in StdoutChunks(route) : OnStdoutData(c)
    \/ \E c \in StderrChunks : OnStderrData(c)
    \/ \E code \in ExitCodes : WorkerExit(code)
    \/ OnClose
    \/ OnError
    \/ OnTimeout
    \/ OnStdinError
    \/ Respond


\* ================================================== the markup serializer
\* A text is a sequence of one-character strings.  The serializer's output is
\* a sequence of parts: [kind |-> "lit"] is text of the template itself,
\* [kind |-> "val", name |-> the interpolated expression] is interpolated text.
Lit(s) == <<[kind |-> "lit", name |-> "", text |-> <<s>>]>>

Val(name, text) == <<[kind |-> "val", name |-> name, text |-> text]>>

\* `${n}` of a number
Num(n) == <<ToString(n)>>

\* `${b}` of a boolean
Bool(b) == IF b THEN <<"true">> ELSE <<"false">>

\* x || 0 of an optional number (<< >> is undefined, <<n>> is n)
OrZero(x) == IF x = << >> \/ x = <<0>> THEN 0 ELSE x[1]

\* x || false of an optional boolean
OrFalse(x) == IF x = << >> THEN FALSE ELSE x[1]

\* x || d of a string ('' and undefined are both << >>)
OrText(x, d) == IF x = << >> THEN d ELSE x

AmpEntity == <<"&", "a", "m", "p", ";">>
LtEntity == <<"&", "l", "t", ";">>
GtEntity == <<"&", "g", "t", ";">>
QuotEntity == <<"&", "q", "u", "o", "t", ";">>
AposEntity == <<"&", "#", "3", "9", ";">>

\* text.replace(/c/g, r)
RECURSIVE ReplaceAll(_, _, _)
ReplaceAll(text, c, r) ==
    IF text = << >> THEN << >>
    ELSE (IF Head(text) = c THEN r ELSE <<Head(text)>>) \o ReplaceAll(Tail(text), c, r)

escapeXml(text) ==
    ReplaceAll(ReplaceAll(ReplaceAll(ReplaceAll(ReplaceAll(text,
        "&", AmpEntity), "<", LtEntity), ">", GtEntity), "\"", QuotEntity), "'", AposEntity)

\* parts.map(f).join('') : the concatenation of f[1], ..., f[n]
RECURSIVE Join(_, _)
Join(f, n) == IF n = 0 THEN << >> ELSE Join(f, n - 1) \o f[n]

\* id="block-${page.pageNumber}-${index + 1}" (index is the 0-based map index)
BlockId(pageNumber, index) == <<"block-", ToString(pageNumber), "-", ToString(index + 1)>>

\* id="image-${page.pageNumber}-${index + 1}"
ImageId(pageNumber, index) == <<"image-", ToString(pageNumber), "-", ToString(index + 1)>>

\* one <text-block> element
TextBlockXml(page, block, index) ==
    Lit("<text-block id=\"") \o Val("block.id", BlockId(page.pageNumber, index))
    \o Lit("\" x=\"") \o Val("block.x", Num(block.x))
    \o Lit("\" y=\"") \o Val("block.y", Num(block.y))
    \o Lit("\" width=\"") \o Val("block.width", Num(block.width))
    \o Lit("\" height=\"") \o Val("block.height", Num(block.height))
    \o Lit("\" font-size=\"") \o Val("block.fontSize", Num(block.fontSize))
    \o Lit("\" font-family=\"") \o Val("block.fontFamily", escapeXml(block.fontFamily))
    \o Lit("\" font-weight=\"") \o Val("block.fontWeight", block.fontWeight)
    \o Lit("\" font-style=\"") \o Val("block.fontStyle", block.fontStyle)
    \o Lit("\" color=\"") \o Val("block.color", escapeXml(block.color))
    \o Lit("\" rotation=\"") \o Val("block.rotation", Num(block.rotation))
    \o Lit("\" direction=\"") \o Val("block.direction", escapeXml(block.direction))
    \o Lit("\" has-eol=\"") \o Val("block.hasEOL", Bool(block.hasEOL))
    \o Lit("\" text-length=\"") \o Val("block.text.length", Num(Len(block.text)))
    \o Lit("\">") \o Val("block.text", escapeXml(block.text))
    \o Lit("</text-block>")

\* one <image> element
ImageXml(page, img, index) ==
    Lit("<image id=\"") \o Val("image.id", ImageId(page.pageNumber, index))
    \o Lit("\" x=\"") \o Val("img.x", Num(img.x))
    \o Lit("\" y=\"") \o Val("img.y", Num(img.y))
    \o Lit("\" width=\"") \o Val("img.width", Num(img.width))
    \o Lit("\" height=\"") \o Val("img.height", Num(img.height))
    \o Lit("\" rotation=\"") \o Val("img.rotation", Num(img.rotation))
    \o Lit("\" ")
    \o (IF img.dataUrl # << >>
        THEN Lit("data-url=\"") \o Val("img.dataUrl", escapeXml(img.dataUrl)) \o Lit("\"")
        ELSE << >>)
    \o (IF img.description # << >>
        THEN Lit("description=\"") \o Val("img.description", escapeXml(img.description))
             \o Lit("\"")
        ELSE << >>)
    \o Lit(" />")

\* one <page> element
PageXml(page) ==
    Lit("<page number=\"") \o Val("page.pageNumber", Num(page.pageNumber))
    \o Lit("\" width=\"") \o Val("page.width", Num(page.width))
    \o Lit("\" height=\"") \o Val("page.height", Num(page.height))
    \o Lit("\" extraction-method=\"")
    \o Val("page.extractionMethod", escapeXml(OrText(page.extractionMethod, <<"unknown">>)))
    \o Lit("\" text-length=\"") \o Val("page.textLength", Num(OrZero(page.textLength)))
    \o Lit("\" line-count=\"") \o Val("page.lineCount", Num(OrZero(page.lineCount)))
    \o Lit("\" has-content=\"") \o Val("page.hasContent", Bool(OrFalse(page.hasContent)))
    \o Lit("\"><page-info><dimensions width=\"") \o Val("page.width", Num(page.width))
    \o Lit("\" height=\"") \o Val("page.height", Num(page.height))
    \o Lit("\" /><content-stats text-length=\"")
    \o Val("stats.textLength", Num(OrZero(page.textLength)))
    \o Lit("\" line-count=\"") \o Val("stats.lineCount", Num(OrZero(page.lineCount)))
    \o Lit("\" text-blocks=\"") \o Val("stats.textBlocks", Num(Len(page.textBlocks)))
    \o Lit("\" images=\"") \o Val("stats.images", Num(Len(page.images)))
    \o Lit("\" /><extraction-details method=\"")
    \o Val("page.extractionMethod", escapeXml(OrText(page.extractionMethod, <<"unknown">>)))
    \o Lit("\" /></page-info><text-blocks count=\"")
    \o Val("textBlocks.length", Num(Len(page.textBlocks)))
    \o Lit("\">")
    \o Join([i \in 1..Len(page.textBlocks) |-> TextBlockXml(page, page.textBlocks[i], i - 1)],
            Len(page.textBlocks))
    \o Lit("</text-blocks>")
    \o (IF Len(page.images) > 0
        THEN Lit("<images count=\"") \o Val("images.length", Num(Len(page.images)))
             \o Lit("\">")
             \o Join([i \in 1..Len(page.images) |-> ImageXml(page, page.images[i], i - 1)],
                     Len(page.images))
             \o Lit("</images>")
        ELSE Lit("<images count=\"0\" />"))
    \o (IF page.background # << >>
        THEN Lit("<background>") \o Val("page.background", escapeXml(page.background))
             \o Lit("</background>")
        ELSE << >>)
    \o Lit("</page>")

\* mutant of DocumentTitle: a document without a title is titled by its file
\* name
DocumentTitle_fileName(fileName, metadata) == OrText(metadata.title, fileName)

\* metadata.title || '' : the text of the <title> element; the fileName
\* argument of createPdfXml is read nowhere in its body
DocumentTitle(fileName, metadata) == OrText(metadata.title, << >>)

createPdfXml(fileName, metadata, pages) ==
    Lit("<?xml version=\"1.0\" encoding=\"UTF-8\"?><pdf-document><metadata><title>")
    \o Val("metadata.title", escapeXml(DocumentTitle(fileName, metadata)))
    \o Lit("</title><author>") \o Val("metadata.author", escapeXml(metadata.author))
    \o Lit("</author><subject>") \o Val("metadata.subject", escapeXml(metadata.subject))
    \o Lit("</subject><creator>") \o Val("metadata.creator", escapeXml(metadata.creator))
    \o Lit("</creator><producer>") \o Val("metadata.producer", escapeXml(metadata.producer))
    \o Lit("</producer><creation-date>")
    \o Val("metadata.creationDate", escapeXml(metadata.creationDate))
    \o Lit("</creation-date><modification-date>")
    \o Val("metadata.modificationDate", escapeXml(metadata.modificationDate))
    \o Lit("</modification-date><page-count>")
    \o Val("metadata.numPages", Num(metadata.numPages))
    \o Lit("</page-count></metadata><pages>")
    \o Join([i \in 1..Len(pages) |-> PageXml(pages[i])], Len(pages))
    \o Lit("</pages></pdf-document>")

\* parts.join(sep) : f[1], ..., f[n] with sep between neighbours
RECURSIVE JoinSep(_, _, _)
JoinSep(f, n, sep) ==
    IF n = 0 THEN << >>
    ELSE IF n = 1 THEN f[1]
    ELSE JoinSep(f, n - 1, sep) \o sep \o f[n]

\* JSON.stringify of a string: the text in double quotes, with backslash,
\* double quote and line feed escaped
JsonString(text) ==
    <<"\"">>
    \o ReplaceAll(ReplaceAll(ReplaceAll(text, "\\", <<"\\", "\\">>),
                             "\"", <<"\\", "\"">>), "\n", <<"\\", "n">>)
    \o <<"\"">>

\* JSON.stringify with indent 2 of one entry of textBlocks, at depth 4 of the
\* structure
BlockJson(block) ==
    Lit("{\n          \"str\": ") \o Val("str", JsonString(block.str)) \o Lit("\n        }")

\* JSON.stringify with indent 2 of one entry of structure.pages, at depth 2
\* of the structure; an empty array is written []
PageJson(page) ==
    Lit("{\n      \"pageNumber\": ") \o Val("pageNumber", Num(page.pageNumber))
    \o Lit(",\n      \"textBlocks\": [")
    \o (IF page.textBlocks = << >> THEN << >>
        ELSE Lit("\n        ")
             \o JoinSep([i \in 1..Len(page.textBlocks) |-> BlockJson(page.textBlocks[i])],
                        Len(page.textBlocks), Lit(",\n        "))
             \o Lit("\n      "))
    \o Lit("]\n    }")

\* JSON.stringify(structure, null, 2): members in insertion order, one per
\* line, two spaces of indentation per depth, ": " after a key, "," between
\* members and between array elements
stringifyPdfStructure(structure) ==
    Lit("{\n  \"version\": ") \o Val("version", Num(structure.version))
    \o Lit(",\n  \"document\": {\n    \"numPages\": ")
    \o Val("document.numPages", Num(structure.document.numPages))
    \o Lit("\n  },\n  \"pages\": [")
    \o (IF structure.pages = << >> THEN << >>
        ELSE Lit("\n    ")
             \o JoinSep([i \in 1..Len(structure.pages) |-> PageJson(structure.pages[i])],
                        Len(structure.pages), Lit(",\n    "))
             \o Lit("\n  "))
    \o Lit("]\n}")

\* ------------------------------------------------- the serializer's inputs
\* longest probe text put in a string field
MaxText == 2
\* most text blocks of a page
MaxBlocks == 3
\* most pages of a document
MaxPages == 2
\* createPdfXml calls on one document
MaxCalls == 2

XmlChars == {"a", "&", "<", ">", "\"", "'"}

Texts(n) == UNION {[1..k -> XmlChars] : k \in 0..n}

SeqsUpTo(S, n) == UNION {[1..k -> S] : k \in 0..n}

Five == <<"H", "e", "l", "l", "o">>
Twelve == <<"H", "e", "l", "l", "o", " ", "w", "o", "r", "l", "d", "!">>

\* a text block as the extraction route builds it
Block(text, family, weight, style, color, direction) ==
    [text |-> text, x |-> 50, y |-> 742, width |-> 8, height |-> 16, fontSize |-> 12,
     fontFamily |-> family, fontWeight |-> weight, fontStyle |-> style, color |-> color,
     rotation |-> 0, direction |-> direction, hasEOL |-> FALSE]

PlainBlock(text) ==
    Block(text, <<"A", "r", "i", "a", "l">>, <<"n", "o", "r", "m", "a", "l">>,
          <<"n", "o", "r", "m", "a", "l">>, <<"#", "0", "0", "0", "0", "0", "0">>,
          <<"l", "t", "r">>)

Image(dataUrl, description) ==
    [x |-> 0, y |-> 0, width |-> 612, height |-> 792, rotation |-> 0,
     dataUrl |-> dataUrl, description |-> description]

Page(pageNumber, textBlocks, images, background, method, textLength) ==
    [pageNumber |-> pageNumber, width |-> 612, height |-> 792, textBlocks |-> textBlocks,
     images |-> images, background |-> background, extractionMethod |-> method,
     textLength |-> textLength, lineCount |-> << >>, hasContent |-> << >>]

Metadata(title, author, subject, creator, producer, created, modified, numPages) ==
    [title |-> title, author |-> author, subject |-> subject, creator |-> creator,
     producer |-> producer, creationDate |-> created, modificationDate |-> modified,
     numPages |-> numPages]

Doc(metadata, pages) == [metadata |-> metadata, pages |-> pages]

\* the fileName argument a caller passes with the document
FileNames == {<<"a", ".", "p", "d", "f">>, <<"b", ".", "p", "d", "f">>}

PlainMetadata(numPages) ==
    Metadata(<<"T">>, <<"A">>, << >>, << >>, << >>, << >>, << >>, numPages)

StringFields ==
    {"title", "author", "subject", "creator", "producer", "creationDate",
     "modificationDate", "extractionMethod", "fontFamily", "fontWeight", "fontStyle",
     "color", "direction", "text", "dataUrl", "description", "background"}

\* a one-page document whose field f holds the text s
ProbeDoc(f, s) ==
    LET at(name, d) == IF f = name THEN s ELSE d
    IN Doc(Metadata(at("title", <<"T">>), at("author", <<"A">>), at("subject", << >>),
                    at("creator", << >>), at("producer", << >>),
                    at("creationDate", << >>), at("modificationDate", << >>), 1),
           << Page(1,
                   << Block(at("text", <<"a">>), at("fontFamily", <<"F">>),
                            at("fontWeight", <<"n">>), at("fontStyle", <<"n">>),
                            at("color", <<"#">>), at("direction", <<"l", "t", "r">>)) >>,
                   << Image(at("dataUrl", << >>), at("description", <<"d">>)) >>,
                   at("background", << >>), at("extractionMethod", << >>), << >>) >>)

ProbeDocs == {ProbeDoc(f, s) : f \in StringFields, s \in Texts(MaxText)}

\* one page, any blocks out of texts of lengths 0, 5 and 12, with the upstream
\* textLength absent, zero, right for [5, 0, 12] or stale
BlockDocs ==
    {Doc(PlainMetadata(1),
         << Page(1, [i \in 1..Len(texts) |-> PlainBlock(texts[i])], << >>, << >>, << >>, tl) >>) :
        texts \in SeqsUpTo({<< >>, Five, Twelve}, MaxBlocks),
        tl \in {<< >>, <<0>>, <<17>>, <<3>>}}

\* any pages, with any page numbers, 1 or 2 blocks and 0 or 1 image each, under
\* any numPages
PageShapes == [pageNumber : 1..MaxPages, blocks : 1..2, images : 0..1]

PageOfShape(sh) ==
    Page(sh.pageNumber, [i \in 1..sh.blocks |-> PlainBlock(<<"a">>)],
         [i \in 1..sh.images |-> Image(<< >>, <<"d">>)], << >>, << >>, << >>)

PageDocs ==
    {Doc(PlainMetadata(n), [i \in 1..Len(shapes) |-> PageOfShape(shapes[i])]) :
        shapes \in SeqsUpTo(PageShapes, MaxPages), n \in 0..(MaxPages + 1)}

NoDoc == Doc(PlainMetadata(0), << >>)

\* the PdfStructure carrying the document's page list
StructureOf(d) ==
    [version |-> 1,
     document |-> [numPages |-> d.metadata.numPages],
     pages |-> [i \in 1..Len(d.pages) |->
                  [pageNumber |-> d.pages[i].pageNumber,
                   textBlocks |-> [j \in 1..Len(d.pages[i].textBlocks) |->
                                     [str |-> d.pages[i].textBlocks[j].text]]]]]

\* --------------------------------------------- layout synthesis at rest
\* what the two parsers find in the file: PDFDocument.load succeeds or throws,
\* pdf-parse succeeds or throws, the page sizes in page order, result.text
\* (<< >> is undefined or ''), and the title and author of the info dictionary
\* ("" when absent)
Pdf(loadOk, parseOk, sizes, text, title, author) ==
    [loadOk |-> loadOk, parseOk |-> parseOk, sizes |-> sizes, text |-> text,
     title |-> title, author |-> author]

NoPdf == Pdf(FALSE, FALSE, << >>, << >>, "", "")

\* the response of the layout route and the arguments of its createPdfXml
\* call (status 0: no response yet)
LayoutResp(status, err, fileName, metadata, pages) ==
    [status |-> status, error |-> err, fileName |-> fileName, metadata |-> metadata,
     pages |-> pages]

NoLayout == LayoutResp(0, "", "", << >>, << >>)

IdleLayout ==
    /\ pdfDoc = NoPdf
    /\ layout = NoLayout

\* ------------------------------------------------- the serializer's actions
IdleXml ==
    /\ doc = NoDoc
    /\ xmlOut = << >>
    /\ jsonOut = << >>
    /\ calls = << >>

IdleWorker ==
    /\ InitWorker
    /\ route = "extract"
    /\ arrivals = Untracked

\* a caller serializes the document, under the file name it passes
Serialize(fileName) ==
    /\ Len(calls) < MaxCalls
    /\ xmlOut' = Append(xmlOut, createPdfXml(fileName, doc.metadata, doc.pages))
    /\ calls' = Append(calls, fileName)
    /\ UNCHANGED <<doc, jsonOut, workerVars, rtVars, layoutVars>>

\* a caller stringifies the document's structure
Stringify ==
    /\ jsonOut = << >>
    /\ jsonOut' = <<stringifyPdfStructure(StructureOf(doc))>>
    /\ UNCHANGED <<doc, xmlOut, calls, workerVars, rtVars, layoutVars>>

NextXml == (\E fileName \in FileNames : Serialize(fileName)) \/ Stringify

\* ======================================================= the verbatim path
\* longest uploaded file, in bytes
MaxBytes == 3

ByteValues == {0, 37, 255}

\* file.name of a file part, as <<name>>: the empty name, a name of Latin-1
\* characters and a name with a character beyond U+00FF
UploadNames == {<<"">>, <<"a.pdf">>, <<"文.pdf">>}

\* file.type of a file part
UploadTypes == {"application/pdf", "text/plain"}

\* the UTF-16 code units of the file names of the model
CodeUnits(name) ==
    CASE name = "" -> << >>
      [] name = "a.pdf" -> <<97, 46, 112, 100, 102>>
      [] name = "document.pdf" -> <<100, 111, 99, 117, 109, 101, 110, 116, 46, 112, 100, 102>>
      [] name = "文.pdf" -> <<25991, 46, 112, 100, 102>>

\* a header value that new Response accepts: a ByteString (no code unit above
\* 255) without NUL, CR or LF
ValidHeaderValue(units) ==
    \A i \in 1..Len(units) : units[i] <= 255 /\ units[i] \notin {0, 10, 13}

NoFile == [present |-> FALSE, bytes |-> << >>, name |-> << >>, type |-> ""]

Uploads ==
    {NoFile} \cup
    {[present |-> TRUE, bytes |-> b, name |-> n, type |-> t] :
        b \in SeqsUpTo(ByteValues, MaxBytes), n \in UploadNames, t \in UploadTypes}

DownloadResp(status, body, contentType, fileName, err) ==
    [status |-> status, body |-> body, contentType |-> contentType,
     fileName |-> fileName, error |-> err]

NoDownload == DownloadResp(0, << >>, "", "", "")

\* the PdfStructure of the extraction-with-original route
OriginalStructure(file, pageCount) ==
    [version |-> 1,
     document |-> [numPages |-> pageCount],
     pages |-> [i \in 1..pageCount |-> [pageNumber |-> i, textBlocks |-> << >>]],
     original |-> << [base64 |-> Base64Encode(file.bytes),
                      fileName |-> IF file.name = << >> THEN "document.pdf" ELSE file.name[1],
                      contentType |-> IF file.type = "" THEN "application/pdf" ELSE file.type,
                      byteLength |-> Len(file.bytes)] >>]

\* the reconstruct-from-model route on the parsed request body s (original
\* << >>: no original): 400 without a payload, 500 from the catch with the
\* message of the TypeError new Response throws when the content-disposition
\* built from the file name is no ByteString, else the bytes
ReconstructResponse(s) ==
    IF s.original = << >> \/ s.original[1].base64 = << >>
    THEN DownloadResp(400, << >>, "", "", "Missing original base64")
    ELSE LET contentType == IF s.original[1].contentType = "" THEN "application/pdf"
                            ELSE s.original[1].contentType
             fileName == IF s.original[1].fileName = "" THEN "document.pdf"
                         ELSE s.original[1].fileName
         IN IF ValidHeaderValue(CodeUnits(fileName))
            THEN DownloadResp(200, Base64Decode(s.original[1].base64), contentType,
                              fileName, "")
            ELSE DownloadResp(500, << >>, "", "",
                              "Cannot convert argument to a ByteString")

IdleRt ==
    /\ upload = NoFile
    /\ rtStructure = << >>
    /\ extracted = 0
    /\ download = NoDownload

InitRt ==
    /\ IdleWorker
    /\ IdleXml
    /\ IdleLayout
    /\ upload \in Uploads
    /\ rtStructure = << >>
    /\ extracted = 0
    /\ download = NoDownload

\* POST of the extraction-with-original route.  PDFDocument.load either
\* throws (always on an empty buffer) or gives a document of pageCount pages.
ExtractWithOriginal(loadOk, pageCount) ==
    /\ extracted = 0
    /\ IF ~upload.present
       THEN extracted' = 400 /\ rtStructure' = rtStructure
       ELSE IF ~loadOk \/ upload.bytes = << >>
            THEN extracted' = 500 /\ rtStructure' = rtStructure
            ELSE /\ extracted' = 200
                 /\ rtStructure' = <<OriginalStructure(upload, pageCount)>>
    /\ UNCHANGED <<upload, download, workerVars, xmlVars, layoutVars>>

\* POST of the reconstruct route with the structure the extraction returned
\* (the JSON body carries the base64 text and the two strings unchanged), with
\* that structure stripped of its original payload, or with a body that is no
\* JSON text (req.json() throws and the catch answers with its message)
ReconstructFromOriginal(request) ==
    /\ extracted = 200
    /\ download = NoDownload
    /\ download' =
          CASE request = "structure" -> ReconstructResponse(rtStructure[1])
            [] request = "stripped" ->
                 ReconstructResponse([rtStructure[1] EXCEPT !.original = << >>])
            [] request = "unreadable" ->
                 DownloadResp(500, << >>, "", "", "Unexpected token in JSON")
    /\ UNCHANGED <<upload, rtStructure, extracted, workerVars, xmlVars, layoutVars>>

NextRt ==
    \/ \E ok \in BOOLEAN, n \in 0..MaxPages : ExtractWithOriginal(ok, n)
    \/ \E request \in {"structure", "stripped", "unreadable"} :
          ReconstructFromOriginal(request)

SpecRt == InitRt /\ [][NextRt]_vars

\* ====================================================== layout synthesis
\* longest result.text, in characters
MaxChars == 4
\* most pages of an uploaded document
MaxDocPages == 2

\* n points.  Every coordinate and size of the layout is a whole number of
\* thousandths of a point, so that a page size may have three decimals.
Pt(n) == n * 1000

RECURSIVE Pow2(_)
Pow2(n) == IF n = 0 THEN 1 ELSE 2 * Pow2(n - 1)

\* the largest e >= from with 2^e points <= x
RECURSIVE ExponentUp(_, _)
ExponentUp(x, from) ==
    IF Pt(1) * Pow2(from + 1) <= x THEN ExponentUp(x, from + 1) ELSE from

\* the least n >= from with x * 2^n at least a point
RECURSIVE ExponentDown(_, _)
ExponentDown(x, from) ==
    IF x * Pow2(from) >= Pt(1) THEN from ELSE ExponentDown(x, from + 1)

\* the binary exponent of the double nearest to a length x > 0
Exponent(x) == IF x >= Pt(1) THEN ExponentUp(x, 0) ELSE 0 - ExponentDown(x, 1)

\* (v * 2^n) % 1000
RECURSIVE Doubled(_, _)
Doubled(v, n) == IF n = 0 THEN v ELSE Doubled((2 * v) % 1000, n - 1)

\* width * 100 on doubles, for a length x halfway between two hundredths (x
\* ends in 5): the product is below the half exactly when the significand of
\* x is below 1.28 (the product keeps the exponent of x plus 6) and the double
\* nearest to x lies more than 0.32 of its last place below x
ProductBelowHalf(x) ==
    LET e == Exponent(x)
        remainder == Doubled(x % 1000, 52 - e)
    IN /\ IF e >= 0 THEN 25 * x < 32000 * Pow2(e) ELSE 25 * x * Pow2(0 - e) < 32000
       /\ remainder > 320
       /\ remainder < 500

\* Math.round(x * 100) / 100 of a length x >= 0, as computed on doubles
Round2(x) ==
    IF x % 10 = 5 /\ ProductBelowHalf(x)
    THEN (x \div 10) * 10
    ELSE ((x + 5) \div 10) * 10

\* Math.min
Min(a, b) == IF a < b THEN a ELSE b

\* the characters String.prototype.trim removes, of those a text may hold
WhiteSpace == {" ", "\t", "\n", "\r", "\f"}

\* rest.split(/\f/g), cur being the piece under construction
RECURSIVE SplitFormFeed(_, _)
SplitFormFeed(rest, cur) ==
    IF rest = << >> THEN <<cur>>
    ELSE IF Head(rest) = "\f" THEN <<cur>> \o SplitFormFeed(Tail(rest), << >>)
    ELSE SplitFormFeed(Tail(rest), Append(cur, Head(rest)))

\* result.text ? result.text.split(/\f/g) : []
textByPages(text) == IF text = << >> THEN << >> ELSE SplitFormFeed(text, << >>)

\* rest.split(/\r?\n/), cur being the piece under construction
RECURSIVE SplitLines(_, _)
SplitLines(rest, cur) ==
    IF rest = << >> THEN <<cur>>
    ELSE IF Head(rest) = "\n" THEN <<cur>> \o SplitLines(Tail(rest), << >>)
    ELSE IF Head(rest) = "\r" /\ Len(rest) >= 2 /\ rest[2] = "\n"
         THEN <<cur>> \o SplitLines(Tail(Tail(rest)), << >>)
    ELSE SplitLines(Tail(rest), Append(cur, Head(rest)))

RECURSIVE TrimStart(_)
TrimStart(line) ==
    IF line # << >> /\ Head(line) \in WhiteSpace THEN TrimStart(Tail(line)) ELSE line

RECURSIVE TrimEnd(_)
TrimEnd(line) ==
    IF line # << >> /\ line[Len(line)] \in WhiteSpace
    THEN TrimEnd(SubSeq(line, 1, Len(line) - 1))
    ELSE line

\* line.trim()
trim(line) == TrimEnd(TrimStart(line))

\* mutant of NonBlankLines: the filter tests the untrimmed line
NonBlankLines_untrimmed(lines) ==
    LET keep(line) == Len(line) > 0 IN SelectSeq(lines, keep)

\* lines.filter(line => line.trim().length > 0)
NonBlankLines(lines) ==
    LET keep(line) == Len(trim(line)) > 0 IN SelectSeq(lines, keep)

ArialText == <<"A", "r", "i", "a", "l">>
NormalText == <<"n", "o", "r", "m", "a", "l">>
LtrText == <<"l", "t", "r">>

\* one entry of lines.map(...): the block of the line at 0-based lineIndex out
\* of count lines, on a page of the given size
TextBlock(line, lineIndex, count, size) ==
    [text |-> trim(line),
     x |-> Pt(50),
     y |-> size.height - Pt(50) - (lineIndex * Pt(20)),
     width |-> Min(Len(line) * Pt(8), size.width - Pt(100)),
     height |-> Pt(16),
     fontSize |-> Pt(12),
     fontFamily |-> ArialText, fontWeight |-> NormalText, fontStyle |-> NormalText,
     color |-> <<"#", "0", "0", "0", "0", "0", "0">>,
     rotation |-> 0, direction |-> LtrText,
     hasEOL |-> lineIndex < count - 1]

\* `Page ${i + 1} - No text content detected`
PlaceholderText(i) ==
    <<"P", "a", "g", "e", " ">> \o <<ToString(i + 1)>> \o
    <<" ", "-", " ", "N", "o", " ", "t", "e", "x", "t", " ", "c", "o", "n", "t", "e", "n", "t", " ", "d", "e", "t", "e", "c", "t", "e", "d">>

\* the block pushed when the page has no text block
PlaceholderBlock(i, size) ==
    [text |-> PlaceholderText(i),
     x |-> Pt(50),
     y |-> size.height - Pt(50),
     width |-> Pt(300),
     height |-> Pt(20),
     fontSize |-> Pt(12),
     fontFamily |-> ArialText, fontWeight |-> NormalText, fontStyle |-> NormalText,
     color |-> <<"#", "6", "6", "6", "6", "6", "6">>,
     rotation |-> 0, direction |-> LtrText,
     hasEOL |-> FALSE]

\* mutant of textBlocksOf: a page without text gets no block
textBlocksOf_noPlaceholder(i, size, pageText) ==
    LET lines == NonBlankLines(SplitLines(pageText, << >>))
    IN [j \in 1..Len(lines) |-> TextBlock(lines[j], j - 1, Len(lines), size)]

\* textBlocks of the page at 0-based index i
textBlocksOf(i, size, pageText) ==
    LET lines == NonBlankLines(SplitLines(pageText, << >>))
        textBlocks == [j \in 1..Len(lines) |-> TextBlock(lines[j], j - 1, Len(lines), size)]
    IN IF Len(textBlocks) = 0 THEN <<PlaceholderBlock(i, size)>> ELSE textBlocks

\* `Page ${i + 1} visual content`
ImageDescription(i) ==
    <<"P", "a", "g", "e", " ">> \o <<ToString(i + 1)>> \o <<" ", "v", "i", "s", "u", "a", "l", " ", "c", "o", "n", "t", "e", "n", "t">>

\* images of the page at 0-based index i (no dataUrl)
imagesOf(i, size) ==
    << [x |-> 0, y |-> 0, width |-> size.width, height |-> size.height, rotation |-> 0,
        dataUrl |-> << >>, description |-> ImageDescription(i)] >>

\* mutant of pageNumberOf: the loop index is the page number
pageNumberOf_zeroBased(i) == i

\* pageNumber: i + 1
pageNumberOf(i) == i + 1

\* the PageData pushed for the page at 0-based index i
LayoutPage(i, size, pageText) ==
    [pageNumber |-> pageNumberOf(i),
     width |-> Round2(size.width),
     height |-> Round2(size.height),
     textBlocks |-> textBlocksOf(i, size, pageText),
     images |-> imagesOf(i, size)]

\* the pages loop
LayoutPages(d) ==
    LET byPages == textByPages(d.text)
    IN [n \in 1..Len(d.sizes) |->
          LayoutPage(n - 1, d.sizes[n], IF n <= Len(byPages) THEN byPages[n] ELSE << >>)]

\* file.name || "document.pdf"
FileNameOf(file) ==
    IF file.name = << >> \/ file.name = <<"">> THEN "document.pdf" ELSE file.name[1]

\* fileName.replace('.pdf', '') of the file names of the model
StripPdf(fileName) ==
    CASE fileName = "a.pdf" -> "a"
      [] fileName = "document.pdf" -> "document"
      [] fileName = "文.pdf" -> "文"
      [] OTHER -> fileName

\* new Date().toISOString() of a reading of the clock in the request: the
\* text of the first reading, or the text of a reading taken after the
\* millisecond clock advanced, by whatever amount (two readings give one text
\* exactly when they fall in the same millisecond)
ClockReading(advanced) == IF advanced THEN <<"now", "later">> ELSE <<"now">>

\* whether the clock advanced between the two readings of the request; the
\* time between them has no bound
ClockAdvanced == BOOLEAN

\* the metadata object; the documents of the model carry no subject, creator,
\* producer or dates
\* (the clock is read once for each date, the second reading after the first)
LayoutMetadata(fileName, d, advanced) ==
    [title |-> IF d.title # "" THEN d.title ELSE StripPdf(fileName),
     author |-> IF d.author # "" THEN d.author ELSE "Unknown",
     subject |-> "PDF Document",
     creator |-> "PDF Parser",
     producer |-> "pdf-lib",
     creationDate |-> ClockReading(FALSE),
     modificationDate |-> ClockReading(advanced),
     numPages |-> Len(d.sizes)]

\* err?.message of what PDFDocument.load or pdf-parse throws
LoadError == "load failed"
ParseError == "parse failed"

\* the response of the layout route for the file and what the parsers find in
\* it; xmlContent is createPdfXml(fileName, metadata, pages) of the fields kept
LayoutResponse(file, d, advanced) ==
    IF ~file.present THEN LayoutResp(400, "Missing file", "", << >>, << >>)
    ELSE IF ~d.loadOk THEN LayoutResp(500, LoadError, "", << >>, << >>)
    ELSE IF ~d.parseOk THEN LayoutResp(500, ParseError, "", << >>, << >>)
    ELSE LayoutResp(200, "", FileNameOf(file), LayoutMetadata(FileNameOf(file), d, advanced),
                    LayoutPages(d))

\* ------------------------------------------------ layout synthesis inputs
TextChars == {"a", " ", "\n", "\r", "\f"}

PageTexts == UNION {[1..k -> TextChars] : k \in 0..MaxChars}

\* a page of 595.295 x 841.885 points (both halfway between two hundredths:
\* the width rounds to 595.29, the height to 841.89), a label of 116 x 100
\* points and a strip of 72 x 72 points
A4Size == [width |-> 595295, height |-> 841885]
LabelSize == [width |-> Pt(116), height |-> Pt(100)]
StripSize == [width |-> Pt(72), height |-> Pt(72)]

PageSizes == {A4Size, LabelSize, StripSize}

PdfFile == [present |-> TRUE, bytes |-> <<37>>, name |-> <<"a.pdf">>, type |-> "application/pdf"]

\* documents of any page sizes and any text
TextPdfs ==
    {Pdf(TRUE, TRUE, sizes, text, "", "") :
        sizes \in SeqsUpTo(PageSizes, MaxDocPages), text \in PageTexts}

\* one-page documents with or without title and author, and the two failures
InfoPdfs ==
    {Pdf(loadOk, parseOk, <<A4Size>>, <<"a">>, title, author) :
        loadOk \in BOOLEAN, parseOk \in BOOLEAN, title \in {"", "T"}, author \in {"", "A"}}

InitLayout ==
    /\ IdleWorker
    /\ IdleXml
    /\ rtStructure = << >>
    /\ extracted = 0
    /\ download = NoDownload
    /\ layout = NoLayout
    /\ \/ upload = NoFile /\ pdfDoc = NoPdf
       \/ /\ upload \in {[PdfFile EXCEPT !.name = n] : n \in UploadNames}
          /\ pdfDoc \in InfoPdfs
       \/ upload = PdfFile /\ pdfDoc \in TextPdfs

\* POST of the layout route
ExtractLayout(advanced) ==
    /\ layout = NoLayout
    /\ layout' = LayoutResponse(upload, pdfDoc, advanced)
    /\ UNCHANGED <<pdfDoc, workerVars, xmlVars, rtVars>>

\* the two extraction routes, each called once with the same file
NextLayout ==
    \/ \E advanced \in ClockAdvanced : ExtractLayout(advanced)
    \/ ExtractWithOriginal(pdfDoc.loadOk, Len(pdfDoc.sizes))

SpecLayout == InitLayout /\ [][NextLayout]_vars

\* ------------------------------------------------------- specifications
Init == InitWorker /\ arrivals = Untracked /\ IdleXml /\ IdleRt /\ IdleLayout

InitXml ==
    /\ IdleWorker
    /\ IdleRt
    /\ IdleLayout
    /\ doc \in ProbeDocs \cup BlockDocs \cup PageDocs
    /\ xmlOut = << >>
    /\ jsonOut = << >>
    /\ calls = << >>

SpecXml == InitXml /\ [][NextXml]_vars

Next == NextWorker

Spec == Init /\ [][Next]_vars

\* the worker invocation with the order of the 'data' events recorded
InitDrain == InitWorker /\ arrivals = << >> /\ IdleXml /\ IdleRt /\ IdleLayout

SpecDrain == InitDrain /\ [][Next]_vars

\* the event loop runs a due timer, an emitted 'error' and the continuation of
\* a settled promise
FairSpec == Spec /\ WF_vars(OnTimeout) /\ WF_vars(OnError) /\ WF_vars(Respond)

\* ------------------------------------------------------------------ claims
\* a terminal handler ('close', 'error', timer) runs after the promise settled
LateTerminal == result.settled /\ resolveCalls' # resolveCalls

\* C1: at most one outcome is ever delivered per invocation; it is the value
\* of whichever of 'close', 'error', timer ran first; a later one of them
\* leaves the promise, the response, the position of POST and the process
\* (running or not, signalled or not) as they were.
C1_SingleOutcome ==
    [][ /\ deliveries' <= 1
        /\ result'.settled => result'.val = firstValue'
        /\ result.settled => result' = result
        /\ LateTerminal => /\ proc' = proc
                           /\ sigterm' = sigterm
                           /\ exitCode' = exitCode
                           /\ response' = response
                           /\ pc' = pc ]_vars

\* 'close' settled the promise, then the timer fired and called resolve again
C1_Witness ==
    /\ firstEvent = "close"
    /\ timer = "fired"
    /\ resolveCalls = 2
    /\ deliveries = 1
    /\ pc = "responded"

\* C2 (as claimed): whenever the promise holds the timeout error, the worker
\* process has already terminated.
C2_TimeoutMeansTerminated ==
    (result.settled /\ result.val.error = <<TimeoutMessage(route)>>)
        => proc # "running"

\* C3 (as claimed): every invocation eventually has an outcome; while the worker is still
\* running the only outcome is the timeout error, and the process was sent
\* SIGTERM.
C3_EventuallyOutcome ==
    /\ (pc = "awaiting") ~> result.settled
    /\ [](result.settled /\ proc = "running"
            => result.val = TimeoutOutcome(route) /\ sigterm /\ killCalls = 1)

\* C4: when 'close' is the first terminal event the outcome depends on the
\* exit code and the accumulators only: code 0 and parsable stdout give the
\* parsed object, code 0 and unparsable stdout give the parse error and no
\* payload, any other code gives the failure message made of the code and
\* the whole stderr accumulator.
C4_CloseOutcome ==
    (firstEvent = "close" /\ result.settled) =>
        /\ (exitCode = "0" /\ JsonValid(stdout)) => result.val = JsonParse(stdout)
        /\ (exitCode = "0" /\ ~JsonValid(stdout)) =>
               /\ result.val.error = <<"Failed to parse Python output">>
               /\ result.val.xml_content = Undefined
               /\ result.val.pdf_data = Undefined
        /\ exitCode # "0" =>
               /\ Len(result.val.error) = 3 + Len(stderr)
               /\ result.val.error[1] = "Python process failed with code "
               /\ result.val.error[2] = exitCode
               /\ SubSeq(result.val.error, 4, Len(result.val.error)) = stderr

\* exit code 2 with stderr "boom"
C4_Witness ==
    /\ firstEvent = "close"
    /\ exitCode = "2"
    /\ stderr = <<"boom">>
    /\ result.val.error = <<"Python process failed with code ", "2", ": ", "boom">>

\* C5: after a failed spawn the only outcome is the spawn error, whatever
\* 'close' and the timer do afterwards.
C5_SpawnError ==
    (proc = "failed" /\ result.settled) =>
        /\ firstEvent = "error"
        /\ result.val.error = <<"Python process error: ", SpawnErrMessage>>
        /\ pc = "responded" =>
               /\ response.status = 500
               /\ response.error = <<"Python process error: ", SpawnErrMessage>>

\* the spawn failed, 'error', 'close' and the timer all ran
C5_Witness ==
    /\ proc = "failed"
    /\ errorEmitted
    /\ closeEmitted
    /\ timer = "fired"
    /\ resolveCalls = 3
    /\ pc = "responded"

\* --------------------------------------------- reading a serialized output
\* the texts interpolated for the expression `name`, in output order
Vals(out, name) ==
    LET hit(part) == part.kind = "val" /\ part.name = name
        parts == SelectSeq(out, hit)
    IN [i \in 1..Len(parts) |-> parts[i].text]

Entities == {AmpEntity, LtEntity, GtEntity, QuotEntity, AposEntity}

\* no reserved character in t but the & that opens one of the five entities
WellEscaped(t) ==
    \A i \in 1..Len(t) :
        /\ t[i] \notin {"<", ">", "\"", "'"}
        /\ t[i] = "&" =>
              \E e \in Entities :
                  /\ i + Len(e) - 1 <= Len(t)
                  /\ SubSeq(t, i, i + Len(e) - 1) = e

\* the interpolations of string-valued fields
StringVals ==
    {"metadata.title", "metadata.author", "metadata.subject", "metadata.creator",
     "metadata.producer", "metadata.creationDate", "metadata.modificationDate",
     "page.extractionMethod", "block.fontFamily", "block.fontWeight", "block.fontStyle",
     "block.color", "block.direction", "block.text", "img.dataUrl", "img.description",
     "page.background"}

RECURSIVE SumLen(_)
SumLen(blocks) ==
    IF blocks = << >> THEN 0 ELSE Len(Head(blocks).text) + SumLen(Tail(blocks))

\* counts[1] + ... + counts[p - 1] : the elements of the pages before the p-th
RECURSIVE Before(_, _)
Before(counts, p) == IF p = 1 THEN 0 ELSE Before(counts, p - 1) + counts[p - 1]

\* ids, in document order, holds one id for each element the pages count, and
\* the id of the k-th element of the p-th page is the four pieces prefix,
\* that page's number, a dash, k
IdsByPageAndOrdinal(ids, prefix, pages, count(_)) ==
    LET counts == [p \in 1..Len(pages) |-> count(pages[p])]
    IN /\ Len(ids) = Before(counts, Len(pages) + 1)
       /\ \A p \in 1..Len(pages) : \A k \in 1..counts[p] :
             LET id == ids[Before(counts, p) + k]
             IN /\ Len(id) = 4
                /\ id[1] = prefix
                /\ id[2] = ToString(pages[p].pageNumber)
                /\ id[3] = "-"
                /\ id[4] = ToString(k)

NoDuplicates(ids) == \A i, j \in 1..Len(ids) : i # j => ids[i] # ids[j]

DistinctPageNumbers(pages) ==
    \A i, j \in 1..Len(pages) : i # j => pages[i].pageNumber # pages[j].pageNumber

NumBlocks(page) == Len(page.textBlocks)
NumImages(page) == Len(page.images)

\* C6 (as claimed): the reconstruct route, given the structure the extraction
\* route returned for the uploaded bytes, answers 200 with exactly those
\* bytes, the upload's content type and the upload's file name, and the
\* recorded byteLength is the length of the decoded payload.
C6_RoundTripAsClaimed ==
    (/\ download.status # 0
     /\ download.error \notin {"Missing original base64", "Unexpected token in JSON"}) =>
        /\ download.status = 200
        /\ download.body = upload.bytes
        /\ rtStructure[1].original[1].byteLength
               = Len(Base64Decode(rtStructure[1].original[1].base64))
        /\ download.contentType = upload.type
        /\ <<download.fileName>> = upload.name

\* C7 (as claimed): in every serialized output, the text interpolated for
\* every string-valued field is escaped: it holds none of < > " ' and no &
\* but the one that opens an entity.
C7_AllFieldsEscaped ==
    \A c \in 1..Len(xmlOut) :
        \A i \in 1..Len(xmlOut[c]) :
            (xmlOut[c][i].kind = "val" /\ xmlOut[c][i].name \in StringVals)
                => WellEscaped(xmlOut[c][i].text)

\* C8 (as claimed): the page attribute text-length is the sum of the lengths
\* of the page's block texts, whatever the page's textLength field holds.
C8_TextLengthComputed ==
    \A c \in 1..Len(xmlOut) :
        \A p \in 1..Len(doc.pages) :
            Vals(xmlOut[c], "page.textLength")[p] = Num(SumLen(doc.pages[p].textBlocks))

\* C9: all calls on the same metadata and pages return the same markup,
\* whatever file name each call passes and however many calls came before; in
\* every output the id of the k-th text block of a page is
\* block-<pageNumber>-<k> and of the k-th image image-<pageNumber>-<k>, k
\* counting from 1 within the page, so that elements of equal page number and
\* ordinal carry equal ids whatever their content; with pairwise distinct
\* page numbers no id occurs twice.
C9_DeterministicIds ==
    /\ \A c, d \in 1..Len(xmlOut) : xmlOut[c] = xmlOut[d]
    /\ \A c \in 1..Len(xmlOut) :
          /\ IdsByPageAndOrdinal(Vals(xmlOut[c], "block.id"), "block-", doc.pages, NumBlocks)
          /\ IdsByPageAndOrdinal(Vals(xmlOut[c], "image.id"), "image-", doc.pages, NumImages)
          /\ DistinctPageNumbers(doc.pages) =>
                NoDuplicates(Vals(xmlOut[c], "block.id") \o Vals(xmlOut[c], "image.id"))

\* two pages with distinct numbers, two blocks on the first and an image on
\* the second, serialized twice under two different file names
C9_Witness ==
    /\ Len(xmlOut) = 2
    /\ calls[1] # calls[2]
    /\ Len(doc.pages) = 2
    /\ doc.pages[1].pageNumber # doc.pages[2].pageNumber
    /\ Len(doc.pages[1].textBlocks) = 2
    /\ Len(doc.pages[2].images) = 1
    /\ Vals(xmlOut[2], "block.id")[2] = <<"block-", ToString(doc.pages[1].pageNumber), "-", "2">>

\* C10 (as claimed): no output carries a page count that differs from the
\* number of pages serialized in it.
C10_PageCountMatches ==
    /\ \A c \in 1..Len(xmlOut) :
          Vals(xmlOut[c], "metadata.numPages")
              = << Num(Len(Vals(xmlOut[c], "page.pageNumber"))) >>
    /\ \A c \in 1..Len(jsonOut) :
          Vals(jsonOut[c], "document.numPages")
              = << Num(Len(Vals(jsonOut[c], "pageNumber"))) >>

\* ---------------------------------------------- the worker-backed routes
\* the parsed payload is the success envelope of the route
SuccessEnvelope(r, v) ==
    /\ v.error = Undefined
    /\ IF r = "extract" THEN v.xml_content # Undefined ELSE v.pdf_data # Undefined

\* the parsed payload is the error envelope
ErrorEnvelope(v) == v.error # Undefined

\* 'close' came first with exit code 0 and stdout parsed
ParsedPayload == firstEvent = "close" /\ exitCode = "0" /\ JsonValid(stdout)

\* C14 (as claimed): a request without its required input is answered 400
\* with a message and nothing is spawned for it; every failure outcome of the
\* worker is answered 500 with an error; a 200 is answered only when the
\* worker outcome is a success envelope.
C14_StatusMapping ==
    pc = "responded" =>
        /\ proc = "unspawned" <=> response.status = 400
        /\ response.status = 400 => response.error # Undefined /\ timer = "unset"
        /\ (proc # "unspawned" /\ result.val.error # Undefined) =>
               /\ response.status = 500
               /\ response.error = result.val.error
        /\ response.status = 200 => SuccessEnvelope(route, result.val)

\* C15 (as claimed): once 'close' has been handled before the timer fired,
\* the timer never fires and kill() is never called.
C15_TimerCancelledOnClose ==
    firstEvent = "close" => (timer # "fired" /\ killCalls = 0)

\* C16 (as claimed): a payload that exits 0 and parses, and is neither the
\* success envelope nor the error envelope, is answered with an error and
\* never with 200.
C16_NeitherEnvelopeRejected ==
    (pc = "responded" /\ ParsedPayload
        /\ ~SuccessEnvelope(route, result.val) /\ ~ErrorEnvelope(result.val)) =>
            /\ response.status = 500
            /\ response.error # Undefined
            /\ ~response.success

\* the chunks of one channel, in arrival order
RECURSIVE ChannelChunks(_, _)
ChannelChunks(events, channel) ==
    IF events = << >> THEN << >>
    ELSE (IF Head(events)[1] = channel THEN <<Head(events)[2]>> ELSE << >>)
         \o ChannelChunks(Tail(events), channel)

\* a 'data' event of the channel happens in this step
DataOn(channel) ==
    /\ arrivals' # arrivals
    /\ arrivals'[Len(arrivals')][1] = channel

\* C17: under every interleaving of the 'data' events each accumulator is the
\* concatenation of its own channel's chunks in arrival order; a chunk on one
\* channel leaves the other accumulator as it was; no chunk arrives after
\* 'close', so the outcome computed on 'close' is a function of the exit code
\* and the two per-channel chunk sequences, whatever their interleaving.
C17_IndependentDrain ==
    [][ /\ stdout' = ChannelChunks(arrivals', "stdout")
        /\ stderr' = ChannelChunks(arrivals', "stderr")
        /\ DataOn("stdout") => stderr' = stderr
        /\ DataOn("stderr") => stdout' = stdout
        /\ closeEmitted => arrivals' = arrivals
        /\ (closeEmitted' /\ firstEvent' = "close") =>
              result'.val = CloseOutcome(route, exitCode,
                                         ChannelChunks(arrivals', "stdout"),
                                         ChannelChunks(arrivals', "stderr")) ]_vars

\* stderr chunks arrived between the stdout chunks of a valid payload
C17_Witness ==
    /\ arrivals = << <<"stdout", LBrace>>, <<"stderr", "boom">>, <<"stdout", RBrace>>,
                     <<"stderr", "boom">> >>
    /\ firstEvent = "close"
    /\ exitCode = "0"
    /\ result.val = JsonParse(<<LBrace, RBrace>>)
    /\ stderr = <<"boom", "boom">>

\* ---------------------------------------------- claims of layout synthesis
\* the raw text of page n (1-based) of the uploaded document
RawText(n) ==
    LET byPages == textByPages(pdfDoc.text)
    IN IF n <= Len(byPages) THEN byPages[n] ELSE << >>

Blank(line) == \A k \in 1..Len(line) : line[k] \in WhiteSpace

\* t is the line without its leading and trailing whitespace
IsTrimOf(t, line) ==
    \E a \in 0..Len(line), b \in 0..Len(line) :
        /\ a + Len(t) + b = Len(line)
        /\ t = SubSeq(line, a + 1, Len(line) - b)
        /\ \A k \in 1..a : line[k] \in WhiteSpace
        /\ \A k \in (Len(line) - b + 1)..Len(line) : line[k] \in WhiteSpace
        /\ t = << >> \/ (t[1] \notin WhiteSpace /\ t[Len(t)] \notin WhiteSpace)

\* the text with every CR LF pair replaced by LF
RECURSIVE CrLfToLf(_)
CrLfToLf(text) ==
    IF text = << >> THEN << >>
    ELSE IF Len(text) >= 2 /\ text[1] = "\r" /\ text[2] = "\n"
         THEN <<"\n">> \o CrLfToLf(Tail(Tail(text)))
    ELSE <<Head(text)>> \o CrLfToLf(Tail(text))

\* lines.join("\n")
RECURSIVE JoinLines(_)
JoinLines(lines) ==
    IF Len(lines) = 0 THEN << >>
    ELSE IF Len(lines) = 1 THEN lines[1]
    ELSE lines[1] \o <<"\n">> \o JoinLines(Tail(lines))

\* the lines of a raw text: the pieces between its line boundaries
LinesOf(text) == SplitLines(text, << >>)

\* how many of the first k lines are not blank
NonBlankUpTo(lines, k) == Cardinality({m \in 1..k : ~Blank(lines[m])})

\* numPages is the number of pages and the page numbers are 1, 2, ... in order
Contiguous(numPages, pages) ==
    /\ numPages = Len(pages)
    /\ \A i \in 1..Len(pages) : pages[i].pageNumber = i

\* C11: the structural model of either extraction route has one page per
\* source page, in source order, numPages equal to the length of pages and
\* pages[i].pageNumber = i + 1 (0-based i), for any page count including 0.
C11_PageNumbering ==
    /\ layout.status = 200 =>
          /\ Contiguous(layout.metadata.numPages, layout.pages)
          /\ Len(layout.pages) = Len(pdfDoc.sizes)
          /\ \A i \in 1..Len(layout.pages) :
                layout.pages[i].width = Round2(pdfDoc.sizes[i].width)
    /\ extracted = 200 =>
          /\ Contiguous(rtStructure[1].document.numPages, rtStructure[1].pages)
          /\ Len(rtStructure[1].pages) = Len(pdfDoc.sizes)

\* both routes answered for a document of two pages of different sizes
C11_Witness ==
    /\ layout.status = 200
    /\ extracted = 200
    /\ Len(layout.pages) = 2
    /\ Len(rtStructure[1].pages) = 2
    /\ pdfDoc.sizes[1] # pdfDoc.sizes[2]

\* C12: the text blocks of a page with a non-blank line are, in line order,
\* one block per line that is not blank, carrying that line without its
\* leading and trailing whitespace; blank lines give no block; no block of
\* any page has empty text.
C12_OneBlockPerNonBlankLine ==
    layout.status = 200 =>
        \A n \in 1..Len(layout.pages) :
            LET lines == LinesOf(RawText(n))
                blocks == layout.pages[n].textBlocks
            IN /\ JoinLines(lines) = CrLfToLf(RawText(n))
               /\ \A k \in 1..Len(lines) : \A c \in 1..Len(lines[k]) : lines[k][c] # "\n"
               /\ \A j \in 1..Len(blocks) : blocks[j].text # << >>
               /\ NonBlankUpTo(lines, Len(lines)) > 0 =>
                     /\ Len(blocks) = NonBlankUpTo(lines, Len(lines))
                     /\ \A k \in 1..Len(lines) :
                           ~Blank(lines[k]) =>
                               IsTrimOf(blocks[NonBlankUpTo(lines, k)].text, lines[k])

\* two lines around a blank line gave two blocks
C12_Witness ==
    /\ layout.status = 200
    /\ pdfDoc.text = <<"a", "\n", "\n", "a">>
    /\ Len(layout.pages) >= 1
    /\ Len(layout.pages[1].textBlocks) = 2
    /\ layout.pages[1].textBlocks[1].text = <<"a">>
    /\ layout.pages[1].textBlocks[2].text = <<"a">>

\* "Page N - No text content detected"
PlaceholderFor(pageNumber) ==
    <<"P", "a", "g", "e", " ">> \o <<ToString(pageNumber)>> \o <<" ", "-", " ", "N", "o", " ", "t", "e", "x", "t", " ", "c", "o", "n", "t", "e", "n", "t", " ", "d", "e", "t", "e", "c", "t", "e", "d">>

\* "Page N visual content"
DescriptionFor(pageNumber) ==
    <<"P", "a", "g", "e", " ">> \o <<ToString(pageNumber)>> \o <<" ", "v", "i", "s", "u", "a", "l", " ", "c", "o", "n", "t", "e", "n", "t">>

\* C13: a page whose raw text has no non-blank line (empty, whitespace only
\* or without a text entry) has exactly one text block, the placeholder for
\* its page number in color #666666; every page has exactly one image block,
\* at x = 0, y = 0 with the page's width and height, described as "Page N
\* visual content" and without a dataUrl.
C13_PlaceholderPolicy ==
    layout.status = 200 =>
        \A n \in 1..Len(layout.pages) :
            LET page == layout.pages[n]
            IN /\ Blank(RawText(n)) =>
                     /\ Len(page.textBlocks) = 1
                     /\ page.textBlocks[1].text = PlaceholderFor(page.pageNumber)
                     /\ page.textBlocks[1].color = <<"#", "6", "6", "6", "6", "6", "6">>
               /\ Len(page.images) = 1
               /\ page.images[1].x = 0
               /\ page.images[1].y = 0
               /\ page.images[1].width = pdfDoc.sizes[n].width
               /\ page.images[1].height = pdfDoc.sizes[n].height
               /\ page.images[1].description = DescriptionFor(page.pageNumber)
               /\ page.images[1].dataUrl = << >>

\* a page with text and a whitespace-only page, the second with the placeholder
C13_Witness ==
    /\ layout.status = 200
    /\ pdfDoc.text = <<"a", "\f", " ">>
    /\ Len(layout.pages) = 2
    /\ layout.pages[1].textBlocks[1].text = <<"a">>
    /\ layout.pages[2].textBlocks[1].text = PlaceholderFor(2)
    /\ Len(layout.pages[2].images) = 1

\* C18 (as claimed): on a page with k >= 1 non-blank lines block j (0-based)
\* has y = pageHeight - 50 - 20*j, so the y values strictly decrease; hasEOL
\* is true except on the last block; every width is the 8-per-character
\* estimate capped at pageWidth - 100, never more than that cap and never
\* negative.
C18_StackedGeometry ==
    layout.status = 200 =>
        \A n \in 1..Len(layout.pages) :
            LET blocks == layout.pages[n].textBlocks
                size == pdfDoc.sizes[n]
            IN ~Blank(RawText(n)) =>
                  \A j \in 1..Len(blocks) :
                     /\ blocks[j].y = size.height - Pt(50) - Pt(20) * (j - 1)
                     /\ j > 1 => blocks[j].y < blocks[j - 1].y
                     /\ blocks[j].hasEOL = (j < Len(blocks))
                     /\ \E c \in Len(blocks[j].text)..MaxChars :
                           blocks[j].width = Min(Pt(8) * c, size.width - Pt(100))
                     /\ blocks[j].width <= size.width - Pt(100)
                     /\ blocks[j].width >= 0

====
